---- MODULE Spec2Model ----
(***************************************************************************)
(* xdr_brk_enum: derive macros that give a Rust enum a serde codec in the  *)
(* XDR style, a two-slot container [u32 tag][payload].                     *)
(*                                                                         *)
(* The model follows the pipeline  schema -> validate -> resolve ->        *)
(* {encode arm, decode branch} and then runs the generated codec on        *)
(* values and on received containers.                                      *)
(*                                                                         *)
(*   src/src/lib.rs    calculate_variants_with_discriminants, the older    *)
(*                     inline match arms, visit_enum's final Err           *)
(*   src/src/ser.rs    generate_match_arm and its helpers                  *)
(*   src/src/deser.rs  generate_deserialization_branch and its helpers     *)
(*                                                                         *)
(* VariantInfo / VariantDiscriminant, the default_arm validation and the   *)
(* visitor that strings deser.rs's branches together are used by ser.rs    *)
(* and deser.rs but are not in the sources; they are modelled from         *)
(* spec.md (sections 4.1, 4.4) and marked so in MODEL_MAP.json.            *)
(*                                                                         *)
(* Option<T> is a sequence of length 0 (None) or 1 (Some).                 *)
(* A payload is the sequence of the field values in wire order; the unit   *)
(* value () is the empty sequence (the zero-length marker).                *)
(***************************************************************************)
EXTENDS Integers, Sequences, FiniteSets, TLC

\* ------------------------------------------------------------------ bounds
MaxVariants == 3
MaxFields == 2

\* u8 has 2^8 values (the default arm of tests/simple_enum.rs is Variant4(u8))
U8Modulus == 256

\* Explicit discriminant constants a schema may use (`Variant1 = foo()`).
ExplicitConsts == {0, 2}
\* Values a field of a normal variant may hold.
FieldVals == {0, 1}
\* Numeric types a default arm's field is declared with.
DefaultTypes == {"u8", "u32"}
\* Tags a received container may carry.
Tags == {0, 1, 2, 3, U8Modulus - 1, U8Modulus, U8Modulus + 1}

None == <<>>
Some(x) == <<x>>
IsSome(o) == Len(o) = 1
Unwrap(o) == o[1]

\* ------------------------------------------------------------ data model
\* syn::Fields: Unit, Unnamed(types), Named(names and types).  Named fields
\* are kept in declaration order and referred to by position.
UnitFields == [style |-> "Unit", tys |-> <<>>]

TypeSeq(n, ty) == [i \in 1..n |-> ty]

\* A normal variant is a unit, has one positional field, or has MaxFields
\* fields, positional or named.
NormalFields ==
    {UnitFields, [style |-> "Unnamed", tys |-> TypeSeq(1, "u32")]} \cup
    {[style |-> s, tys |-> TypeSeq(MaxFields, "u32")] : s \in {"Unnamed", "Named"}}

\* Shapes a #[default_arm] variant may be written with, valid or not.
DefaultFields ==
    {UnitFields} \cup
    {[style |-> "Unnamed", tys |-> <<ty>>] : ty \in DefaultTypes} \cup
    {[style |-> "Named", tys |-> TypeSeq(1, "u32")],
     [style |-> "Unnamed", tys |-> TypeSeq(MaxFields, "u32")]}

\* syn::Variant: the optional `= expr`, the #[default_arm] attribute, the fields.
NormalVariants ==
    {[discriminant |-> d, default_arm |-> FALSE, fields |-> f] :
        d \in {None} \cup {Some(e) : e \in ExplicitConsts}, f \in NormalFields}

DefaultVariants ==
    {[discriminant |-> None, default_arm |-> TRUE, fields |-> f] : f \in DefaultFields}

Variants == NormalVariants \cup DefaultVariants

Schemas == UNION {[1..n -> Variants] : n \in 1..MaxVariants}

\* ------------------------------------------------------------ expressions
\* A syn::Expr as the resolver composes it: a base constant expression wrapped
\* in `plus` layers of `( _ + 1)`.  The macros never evaluate it; rustc does,
\* where the generated code writes `(#discriminant) as u32`.
Lit(n) == [base |-> n, plus |-> 0]
PlusOne(e) == [base |-> e.base, plus |-> e.plus + 1]
Eval(e) == e.base + e.plus

\* Rust's `x as ty` on the unsigned values of the model.  Every value of the
\* model lies in 0 .. 2^31-1, where `as u32` keeps the value; `as u8` keeps
\* the low eight bits.
AsCast(x, ty) == IF ty = "u8" THEN x % U8Modulus ELSE x

\* ------------------------------------------------- lib.rs: the resolver
\* One turn of the `for v in variants` loop: the discriminant pushed for v.
current_discriminant(v, next_discriminant) ==
    IF IsSome(v.discriminant)
    THEN Lit(Unwrap(v.discriminant))
    ELSE next_discriminant

\* A resolver that forgets the explicit override: it counts on from the
\* running value after an explicit variant.
advance_discriminant_ignoring_explicit(v, next_discriminant) ==
    PlusOne(next_discriminant)

\* ... and next_discriminant as the turn leaves it.
advance_discriminant(v, next_discriminant) ==
    IF IsSome(v.discriminant)
    THEN PlusOne(Lit(Unwrap(v.discriminant)))
    ELSE PlusOne(next_discriminant)

RECURSIVE resolve_from(_, _, _)
resolve_from(variants, i, next_discriminant) ==
    IF i > Len(variants)
    THEN <<>>
    ELSE <<current_discriminant(variants[i], next_discriminant)>> \o
         resolve_from(variants, i + 1, advance_discriminant(variants[i], next_discriminant))

\* A resolver that numbers from 1.
calculate_variants_from_one(variants) == resolve_from(variants, 1, Lit(1))

calculate_variants_with_discriminants(variants) == resolve_from(variants, 1, Lit(0))

\* ------------------------------------- validation and VariantInfo (spec.md)
DefaultArms(variants) == {i \in 1..Len(variants) : variants[i].default_arm}

\* A validator that only counts the default arms.
validate_count_only(variants) ==
    IF Cardinality(DefaultArms(variants)) > 1 THEN "AtMostOneDefaultArm" ELSE "Ok"

\* spec.md 4.1: more than one default arm, then the shape of the default arm.
validate(variants) ==
    IF Cardinality(DefaultArms(variants)) > 1
    THEN "AtMostOneDefaultArm"
    ELSE IF \E i \in DefaultArms(variants) :
                ~(variants[i].fields.style = "Unnamed" /\ Len(variants[i].fields.tys) = 1)
         THEN "DefaultArmShape"
         ELSE "Ok"

\* VariantInfo { variant, discriminant }: VariantDiscriminant::Default is None,
\* VariantDiscriminant::Normal(expr) is Some(expr).
variant_infos(variants) ==
    LET resolved == calculate_variants_with_discriminants(variants) IN
    [i \in 1..Len(variants) |->
        [variant |-> variants[i],
         discriminant |-> IF variants[i].default_arm THEN None ELSE Some(resolved[i])]]

\* ---------------------------------------------------------- ser.rs: encode
\* The bindings of a variant's pattern, as positions in declaration order
\* (field_0, field_1, ... or the field names).
generate_field_bindings(fields) == [i \in 1..Len(fields.tys) |-> i]

\* A payload tuple written last field first.
generate_serialize_element_reversed(bindings, field_values) ==
    [i \in 1..Len(bindings) |-> field_values[bindings[Len(bindings) + 1 - i]]]

\* `&(#(#bindings,)*)`: the tuple of the bound values, `&()` for no binding.
generate_serialize_element(bindings, field_values) ==
    [i \in 1..Len(bindings) |-> field_values[bindings[i]]]

\* A default arm written like a normal variant: the field in the payload.
default_match_arm_in_payload(field_bindings, field_values) ==
    <<0, <<AsCast(field_values[field_bindings[1]], "u32")>>>>

\* VariantDiscriminant::Default: the field's value becomes the tag and the
\* payload slot holds ().
default_match_arm(field_bindings, field_values) ==
    <<AsCast(field_values[field_bindings[1]], "u32"), <<>>>>

\* VariantDiscriminant::Normal(discriminant): the evaluated discriminant is
\* the tag and the payload slot holds the tuple of the bindings.
normal_match_arm(discriminant, field_bindings, field_values) ==
    <<AsCast(Eval(discriminant), "u32"),
      generate_serialize_element(field_bindings, field_values)>>

\* The body of the match arm generated for one variant, run on the values
\* its pattern binds: the two elements given to serialize_tuple(2).
generate_match_arm(variant_info, field_values) ==
    LET field_bindings == generate_field_bindings(variant_info.variant.fields) IN
    IF variant_info.discriminant = None
    THEN default_match_arm(field_bindings, field_values)
    ELSE normal_match_arm(Unwrap(variant_info.discriminant), field_bindings, field_values)

\* impl Serialize: `match self` picks the arm of the value's variant.
serialize(infos, v) == generate_match_arm(infos[v.variant], v.fields)

\* lib.rs, the inline arm of derive_xdr_enum_serialize (it knows no default
\* arm): Unit writes (), Unnamed the tuple of its bindings, Named a helper
\* struct of references whose fields are written in declaration order.
derive_xdr_enum_serialize_arm(discriminant, variant, field_values) ==
    <<AsCast(Eval(discriminant), "u32"),
      IF variant.fields.style = "Unit"
      THEN <<>>
      ELSE [i \in 1..Len(variant.fields.tys) |-> field_values[i]]>>

\* -------------------------------------------------------- deser.rs: decode
NoValue == [variant |-> 0, fields |-> <<>>]
Ok(v, i, n) == [ok |-> TRUE, value |-> v, err |-> "", tag |-> 0, matched |-> i, examined |-> n]
Err(e, t, i, n) == [ok |-> FALSE, value |-> NoValue, err |-> e, tag |-> t, matched |-> i, examined |-> n]

\* The tuple type read from the payload slot: `<()>` or `<(T1, T2,)>`.
generate_deserialize_fields(fields) == fields.tys

\* `data.next_element::<T>()?.ok_or_else(invalid_length(1))`: the payload slot
\* read as the tuple type tys.  "" stands for success.
next_element_error(wire, tys) ==
    IF Len(wire) < 2 THEN "TruncatedInput"
    ELSE IF Len(wire[2]) # Len(tys) THEN "PayloadShapeMismatch"
    ELSE ""

\* A construction that fills the fields from the tuple back to front.
generate_variant_construction_reversed(idx, fields, tuple) ==
    [variant |-> idx,
     fields |-> [i \in 1..Len(fields.tys) |-> tuple[Len(fields.tys) + 1 - i]]]

\* `#name::#variant_ident(fields.0, fields.1)` or `{ a: fields.0, b: fields.1 }`
generate_variant_construction(idx, fields, tuple) ==
    [variant |-> idx, fields |-> [i \in 1..Len(fields.tys) |-> tuple[i]]]

\* A default arm whose field saturates instead of wrapping.
default_arm_construction_saturating(idx, fields, discriminant) ==
    [variant |-> idx,
     fields |-> <<IF fields.tys[1] = "u8" /\ discriminant >= U8Modulus
                  THEN U8Modulus - 1
                  ELSE discriminant>>]

\* `#name::#variant_ident(discriminant as #default_variant_ty)`
default_arm_construction(idx, fields, discriminant) ==
    [variant |-> idx, fields |-> <<AsCast(discriminant, fields.tys[1])>>]

\* A branch that takes every tag from its discriminant upwards.
branch_matches_at_least(discriminant, discriminant_expr) ==
    discriminant >= AsCast(Eval(discriminant_expr), "u32")

\* `if discriminant == (#discriminant_expr) as u32`
branch_matches(discriminant, discriminant_expr) ==
    discriminant = AsCast(Eval(discriminant_expr), "u32")

\* The branch generated for variant idx, run on the tag and the container.
\* None: the branch's `if` did not match and control falls through.
generate_deserialization_branch(variant_info, idx, discriminant, wire) ==
    LET fields == variant_info.variant.fields IN
    IF variant_info.discriminant = None
    THEN LET e == next_element_error(wire, <<>>) IN
         Some(IF e # ""
              THEN Err(e, discriminant, idx, idx)
              ELSE Ok(default_arm_construction(idx, fields, discriminant), idx, idx))
    ELSE IF branch_matches(discriminant, Unwrap(variant_info.discriminant))
         THEN LET field_types == generate_deserialize_fields(fields)
                  e == next_element_error(wire, field_types)
              IN  Some(IF e # ""
                       THEN Err(e, discriminant, idx, idx)
                       ELSE Ok(generate_variant_construction(idx, fields, wire[2]), idx, idx))
         ELSE None

\* An error that drops the tag.
unknown_discriminant_without_tag(discriminant, n) == Err("UnknownDiscriminant", 0, 0, n)

\* lib.rs visit_enum, last line: no branch returned.
unknown_discriminant(discriminant, n) == Err("UnknownDiscriminant", discriminant, 0, n)

\* The visitor around the branches (spec.md 4.4): the normal variants'
\* branches in declaration order, then the default arm's, then the error.
RECURSIVE dispatch(_, _, _)
dispatch(infos, i, wire) ==
    IF i > Len(infos)
    THEN IF \E d \in 1..Len(infos) : infos[d].discriminant = None
         THEN LET d == CHOOSE d \in 1..Len(infos) : infos[d].discriminant = None
                  r == Unwrap(generate_deserialization_branch(infos[d], d, wire[1], wire))
              IN  [r EXCEPT !.examined = Len(infos)]
         ELSE unknown_discriminant(wire[1], Len(infos))
    ELSE IF infos[i].discriminant = None
         THEN dispatch(infos, i + 1, wire)
         ELSE LET r == generate_deserialization_branch(infos[i], i, wire[1], wire) IN
              IF IsSome(r) THEN Unwrap(r) ELSE dispatch(infos, i + 1, wire)

deserialize(infos, wire) == dispatch(infos, 1, wire)

\* lib.rs, the older visitor of derive_xdr_enum_deserialize, which knows no
\* default arm: every variant has a branch `if discriminant == (#d) as u32
\* { return ... }`, in declaration order, and the error follows the last.
\* Its branch bodies read a unit, or the fields one by one in order.
RECURSIVE visit_enum_from(_, _, _, _)
visit_enum_from(resolved, variants, i, wire) ==
    IF i > Len(variants)
    THEN unknown_discriminant(wire[1], Len(variants))
    ELSE IF wire[1] = AsCast(Eval(resolved[i]), "u32")
         THEN LET e == next_element_error(wire, variants[i].fields.tys) IN
              IF e # ""
              THEN Err(e, wire[1], i, i)
              ELSE Ok([variant |-> i,
                       fields |-> [k \in 1..Len(variants[i].fields.tys) |-> wire[2][k]]], i, i)
         ELSE visit_enum_from(resolved, variants, i + 1, wire)

visit_enum(variants, wire) ==
    visit_enum_from(calculate_variants_with_discriminants(variants), variants, 1, wire)

\* ----------------------------------------------------------------- values
RangeOf(ty) == {t \in Tags : AsCast(t, ty) = t}

FieldTuples(variant) ==
    IF variant.default_arm
    THEN {<<x>> : x \in RangeOf(variant.fields.tys[1])}
    ELSE [1..Len(variant.fields.tys) -> FieldVals]

\* The values of the enum type a validated schema declares.
Values(variants) ==
    UNION {{[variant |-> i, fields |-> fs] : fs \in FieldTuples(variants[i])} :
           i \in 1..Len(variants)}

\* Containers a peer may send: a tag alone, or a tag and a payload.
Payloads == {TypeSeq(n, 0) : n \in {0, 1, MaxFields}}
Wires == {<<t>> : t \in Tags} \cup {<<t, p>> : t \in Tags, p \in Payloads}

\* ---------------------------------------------------------- state machine
VARIABLES
    schema,     \* the enum the derive macros are applied to
    stage,      \* "schema", "rejected" or "ready" (impls generated)
    verdict,    \* what validation said
    infos,      \* the VariantInfo list the impls are generated from
    value,      \* Some(v): the value the container on the wire encodes
    wire,       \* the container: <<>> none yet, <<tag>> or <<tag, payload>>
    result      \* Some(r): what deserialize returned for the container

vars == <<schema, stage, verdict, infos, value, wire, result>>

Init ==
    /\ schema \in Schemas
    /\ stage = "schema"
    /\ verdict = ""
    /\ infos = <<>>
    /\ value = None
    /\ wire = <<>>
    /\ result = None

\* The schema is validated; a rejected schema goes no further.
Validate ==
    /\ stage = "schema"
    /\ verdict' = validate(schema)
    /\ stage' = IF verdict' = "Ok" THEN "validated" ELSE "rejected"
    /\ UNCHANGED <<schema, infos, value, wire, result>>

\* Discriminants are resolved and both impls are generated from them.
Resolve ==
    /\ stage = "validated"
    /\ infos' = variant_infos(schema)
    /\ stage' = "ready"
    /\ UNCHANGED <<schema, verdict, value, wire, result>>

\* A value of the enum is serialized.  Calls of the generated impls share no
\* state, so one behaviour follows one container.
Serialize ==
    /\ stage = "ready"
    /\ wire = <<>>
    /\ \E v \in Values(schema) :
          /\ value' = Some(v)
          /\ wire' = serialize(infos, v)
    /\ result' = None
    /\ UNCHANGED <<schema, stage, verdict, infos>>

\* A container arrives from elsewhere.
Receive ==
    /\ stage = "ready"
    /\ wire = <<>>
    /\ wire' \in Wires
    /\ value' = None
    /\ result' = None
    /\ UNCHANGED <<schema, stage, verdict, infos>>

\* The container on the wire is deserialized.
Deserialize ==
    /\ stage = "ready"
    /\ wire # <<>>
    /\ result = None
    /\ result' = Some(deserialize(infos, wire))
    /\ UNCHANGED <<schema, stage, verdict, infos, value, wire>>

Next == Validate \/ Resolve \/ Serialize \/ Receive \/ Deserialize

Spec == Init /\ [][Next]_vars

\* ================================================================ claims
IsExplicit(v) == IsSome(v.discriminant)
IsImplicit(v) == ~v.default_arm /\ v.discriminant = None
IsDefault(i) == infos[i].discriminant = None
Normals == {i \in 1..Len(infos) : ~IsDefault(i)}
\* The wire tag of normal variant i: its discriminant evaluated, as a u32.
TagOf(i) == Eval(Unwrap(infos[i].discriminant))
Matching(tag) == {i \in Normals : TagOf(i) = tag}
Min(S) == CHOOSE m \in S : \A x \in S : m <= x
RemoveAt(q, d) == [i \in 1..(Len(q) - 1) |-> IF i < d THEN q[i] ELSE q[i + 1]]
Encoded == stage = "ready" /\ IsSome(value)
Decoded == stage = "ready" /\ IsSome(result)

\* C4 (as claimed): a default arm resolves to None and does not advance the
\* running value: each variant after it gets the discriminant it gets in the
\* variant list with the default arm removed.
C4_DefaultArmExclusion ==
    stage = "ready" =>
        \A d \in DefaultArms(schema) :
            /\ infos[d].discriminant = None
            /\ \A i \in (d + 1)..Len(schema) :
                  calculate_variants_with_discriminants(schema)[i] =
                  calculate_variants_with_discriminants(RemoveAt(schema, d))[i - 1]

C6_ImplicitIncrement ==
    stage = "ready" =>
        \A i \in 1..Len(schema) :
            (\A j \in 1..i : IsImplicit(schema[j])) =>
                /\ infos[i].discriminant = Some([base |-> 0, plus |-> i - 1])
                /\ TagOf(i) = i - 1

\* C6's case: a resolved list of at least three implicit variants.
C6_Witness ==
    /\ stage = "ready"
    /\ Len(schema) >= 3
    /\ \A j \in 1..Len(schema) : IsImplicit(schema[j])

\* C1 (as claimed): decoding the container serialize wrote for a value
\* returns that value, for every value of every validated schema.
C1_RoundTrip ==
    (Encoded /\ Decoded) =>
        /\ Unwrap(result).ok
        /\ Unwrap(result).value = Unwrap(value)

\* The values whose tag no earlier branch of the decoder claims: a normal
\* variant no earlier-declared normal variant shares its discriminant with,
\* and a default-arm value whose field equals no normal discriminant.
FirstWithItsTag(v) ==
    IF IsDefault(v.variant)
    THEN Matching(v.fields[1]) = {}
    ELSE \A j \in Normals : j < v.variant => TagOf(j) # TagOf(v.variant)

\* C1 (amended): the round trip holds for the values whose tag no earlier
\* branch claims; for any other value decode does not return the value.
C1_RoundTripFirstDeclared ==
    (Encoded /\ Decoded) =>
        LET v == Unwrap(value)
            r == Unwrap(result)
        IN  /\ FirstWithItsTag(v) => (r.ok /\ r.value = v)
            /\ ~FirstWithItsTag(v) => (r.value # v /\ r.matched = Min(Matching(wire[1])))

\* C1's case: values of a named normal variant with two differing fields and
\* of a default arm have gone through serialize and deserialize unchanged.
C1_Witness ==
    /\ Encoded /\ Decoded
    /\ Unwrap(result).ok
    /\ Unwrap(result).value = Unwrap(value)
    /\ \E d \in 1..Len(infos) : IsDefault(d)
    /\ LET v == Unwrap(value) IN
       /\ schema[v.variant].fields.style = "Named"
       /\ Len(v.fields) = 2
       /\ v.fields[1] # v.fields[2]
       /\ v.variant > 1

\* A received container with both slots, the payload slot holding (), whose
\* tag no normal variant has, decoded under a schema with default arm d.
UnmatchedUnderDefault(d) ==
    /\ Decoded
    /\ IsDefault(d)
    /\ Len(wire) = 2
    /\ wire[2] = <<>>
    /\ Matching(wire[1]) = {}

\* C2 (as claimed): an unmatched tag decodes to the default variant whose
\* field holds exactly the tag, whatever type the field has.
C2_DefaultHoldsExactTag ==
    \A d \in 1..Len(infos) :
        UnmatchedUnderDefault(d) =>
            /\ Unwrap(result).ok
            /\ Unwrap(result).value = [variant |-> d, fields |-> <<wire[1]>>]

\* C2 (amended): an unmatched tag decodes to the default variant whose field
\* holds the tag cast to the field's type: the tag itself for u32, the tag
\* modulo 2^8 for u8.  A value the default arm holds re-encodes to the tag
\* it was decoded from exactly when the tag fits the type.
C2_DefaultHoldsCastTag ==
    \A d \in 1..Len(infos) :
        UnmatchedUnderDefault(d) =>
            LET r == Unwrap(result)
                ty == schema[d].fields.tys[1]
                tag == wire[1]
            IN  /\ r.ok
                /\ r.value.variant = d
                /\ Len(r.value.fields) = 1
                /\ ty = "u32" => r.value.fields[1] = tag
                /\ ty = "u8" => r.value.fields[1] = tag % U8Modulus
                /\ (tag < U8Modulus) => r.value.fields[1] = tag

\* C2's case: a tag that does not fit a u8 default arm has been decoded.
C2_Witness ==
    \E d \in 1..Len(infos) :
        /\ UnmatchedUnderDefault(d)
        /\ schema[d].fields.tys[1] = "u8"
        /\ wire[1] >= U8Modulus
        /\ Normals # {}

\* C3: without a default arm, a tag no variant has decodes to the error
\* UnknownDiscriminant carrying that tag, returned as the result; no variant
\* is constructed, whatever the payload slot holds and even when it is absent.
\* The visitor of lib.rs returns the same error.
C3_UnknownDiscriminant ==
    (Decoded /\ DefaultArms(schema) = {} /\ Matching(wire[1]) = {}) =>
        LET r == Unwrap(result) IN
        /\ ~r.ok
        /\ r.err = "UnknownDiscriminant"
        /\ r.tag = wire[1]
        /\ r.value = NoValue
        /\ r.matched = 0
        /\ visit_enum(schema, wire) = r

\* C3's case: such a container has been decoded, after every variant of a
\* three-variant schema was compared with its non-zero tag.
C3_Witness ==
    /\ Decoded
    /\ DefaultArms(schema) = {}
    /\ Matching(wire[1]) = {}
    /\ Len(schema) >= 3
    /\ wire[1] > 0
    /\ Unwrap(result).examined = Len(schema)

WellShapedDefault(v) == v.fields.style = "Unnamed" /\ Len(v.fields.tys) = 1

\* C7: validation runs first; a schema with two or more default arms is
\* rejected with AtMostOneDefaultArm, a schema whose one default arm does not
\* have exactly one positional field is rejected with DefaultArmShape, and
\* discriminants are resolved and impls generated for neither.
C7_ValidationFailures ==
    /\ stage # "schema" =>
          /\ Cardinality(DefaultArms(schema)) >= 2 => verdict = "AtMostOneDefaultArm"
          /\ (Cardinality(DefaultArms(schema)) = 1 /\
              \E d \in DefaultArms(schema) : ~WellShapedDefault(schema[d]))
                => verdict = "DefaultArmShape"
          /\ verdict # "Ok" => stage = "rejected"
    /\ (stage = "schema" \/ stage = "rejected") => (infos = <<>> /\ wire = <<>> /\ result = None)
    /\ (stage = "ready" \/ infos # <<>> \/ wire # <<>>) =>
          /\ Cardinality(DefaultArms(schema)) <= 1
          /\ \A d \in DefaultArms(schema) : WellShapedDefault(schema[d])

\* C7's case: a schema with a default arm of two fields, and one with a unit
\* default arm beside normal variants, has been rejected for its shape.
C7_Witness ==
    /\ stage = "rejected"
    /\ verdict = "DefaultArmShape"
    /\ \E d \in DefaultArms(schema) : Len(schema[d].fields.tys) # 1
    /\ \E i \in 1..Len(schema) : ~schema[i].default_arm

\* C8: a default-arm value DefaultArm(x) is written as exactly two slots, the
\* tag x (as u32) and the empty payload; x is not in the payload slot.
C8_DefaultArmEncode ==
    (Encoded /\ IsDefault(Unwrap(value).variant)) =>
        /\ Len(wire) = 2
        /\ wire[1] = Unwrap(value).fields[1]
        /\ wire[2] = <<>>

\* C8's case: a default-arm value that is not 0 and is the tag of no normal
\* variant has been serialized.
C8_Witness ==
    /\ Encoded
    /\ IsDefault(Unwrap(value).variant)
    /\ Unwrap(value).fields[1] > 1
    /\ Normals # {}
    /\ wire[1] = Unwrap(value).fields[1]

\* The same variant written with the other field style (named for
\* positional and back); a unit variant is left as it is.
OtherStyle(info) ==
    [info EXCEPT !.variant.fields.style =
        IF @ = "Unnamed" THEN "Named" ELSE IF @ = "Named" THEN "Unnamed" ELSE @]

\* C9: a value of a normal variant is written as exactly two slots: the
\* variant's resolved discriminant evaluated (as u32), then () for a unit
\* variant and otherwise the field values in declaration order.  The named
\* and the positional variant of the same fields give the same container,
\* and so does the inline arm of lib.rs.
C9_NormalVariantEncode ==
    (Encoded /\ ~IsDefault(Unwrap(value).variant)) =>
        LET v == Unwrap(value)
            info == infos[v.variant]
        IN  /\ Len(wire) = 2
            /\ wire[1] = TagOf(v.variant)
            /\ schema[v.variant].fields.style = "Unit" => wire[2] = <<>>
            /\ Len(wire[2]) = Len(schema[v.variant].fields.tys)
            /\ \A i \in 1..Len(wire[2]) : wire[2][i] = v.fields[i]
            /\ generate_match_arm(OtherStyle(info), v.fields) = wire
            /\ derive_xdr_enum_serialize_arm(Unwrap(info.discriminant), info.variant, v.fields) = wire

\* C9's case: a named variant with two differing field values and a tag
\* that is not its position has been serialized.
C9_Witness ==
    /\ Encoded
    /\ ~IsDefault(Unwrap(value).variant)
    /\ LET v == Unwrap(value) IN
       /\ schema[v.variant].fields.style = "Named"
       /\ Len(v.fields) = 2
       /\ v.fields[1] # v.fields[2]
       /\ wire[1] # v.variant - 1

\* reading the payload slot as variant f's fields succeeds
PayloadFits(f) == Len(wire) = 2 /\ Len(wire[2]) = Len(schema[f].fields.tys)

\* C10: when the tag is the discriminant of some normal variant, decode takes
\* the branch of the earliest-declared such variant f, examines no variant
\* after f, reads the payload as f's fields and returns f (or f's payload
\* error); a default arm and equal-tagged variants declared elsewhere change
\* nothing.  On a schema without default arm the visitor of lib.rs agrees.
C10_FirstDeclaredMatchWins ==
    (Decoded /\ Matching(wire[1]) # {}) =>
        LET r == Unwrap(result)
            f == Min(Matching(wire[1]))
        IN  /\ r.matched = f
            /\ r.examined = f
            /\ PayloadFits(f) =>
                  (r.ok /\ r.value = [variant |-> f, fields |-> wire[2]])
            /\ ~PayloadFits(f) =>
                  (~r.ok /\ r.err \in {"TruncatedInput", "PayloadShapeMismatch"})
            /\ DefaultArms(schema) = {} => visit_enum(schema, wire) = r

\* C10's case: two normal variants share the tag, a default arm is declared
\* before both, and the first of the two was returned.
C10_Witness ==
    /\ Decoded
    /\ Cardinality(Matching(wire[1])) >= 2
    /\ \E d \in 1..Len(infos) : IsDefault(d) /\ d < Min(Matching(wire[1]))
    /\ Unwrap(result).ok
    /\ Unwrap(result).value.variant = Min(Matching(wire[1]))

====
